---------------------------- MODULE Spec2Model ----------------------------
(***************************************************************************)
(* Model of src/src/lib/Postprocessing.hpp (namespace Postprocessing):     *)
(*   compute_boundary_load, compute_cod, get_point_values,                 *)
(* run SPMD by NRanks MPI ranks over one distributed mesh.                 *)
(*                                                                         *)
(* The mesh (an external collaborator of the file) is a row of n_cells     *)
(* unit hypercubes of dimension dim, cell c spanning [c-1, c] along x.     *)
(* Coordinates are integers on a grid with CellWidth points per cell edge. *)
(* The finite element is the vertex-based multilinear one (dim             *)
(* displacement components followed by the phase field), so that           *)
(* get_function_values / get_function_gradients are exact integer          *)
(* polynomials of the vertex values, up to a common scale factor.          *)
(***************************************************************************)
EXTENDS Integers, Sequences, FiniteSets, TLC

\* ----------------------------------------------------------------- bounds
NRanks == 2
MaxCells == 3
\* unsigned int is modelled UIntBits wide (the model checker's integers are
\* 32-bit signed, so the 32-bit modulus itself is not representable)
UIntBits == 16

\* ------------------------------------------------------ program constants
\* std::numeric_limits<double>::max(), the sentinel of lines 149 and 185
DoubleMax == 1000000
\* std::numeric_limits<unsigned int>::max(), the placeholder of line 150
UIntMax == 2^UIntBits - 1

Ranks == 1..NRanks
Dims == {2, 3}

VARIABLES
  dim,                 \* template parameter <int dim>
  n_cells,             \* number of active cells of the triangulation
  owner,               \* owner[c]: the rank whose subdomain holds cell c
  solution,            \* pf.solution: the distributed solution vector
  relevant_solution,   \* pf.relevant_solution, one ghosted vector per rank
  call,                \* the operation all ranks are in, with its arguments
  pc,                  \* pc[r]: where rank r is in the call
  log,                 \* log[r]: the collectives rank r has entered so far
  local,               \* local_load / cod_values / min_distances of rank r
  closest_vertex_idx,  \* closest_vertex_idx of rank r
  values,              \* boundary_load / cod_values / values being returned
  reinit_trace,        \* the <<cell, face>> pairs rank r called reinit on
  reads                \* the indices rank r read `solution` at (line 190)

vars == <<dim, n_cells, owner, solution, relevant_solution, call, pc, log,
          local, closest_vertex_idx, values, reinit_trace, reads>>

\* ------------------------------------------------------------ arithmetic
\* the sequence f, with its elements evaluated once
AsSeq(f) == f \o <<>>

RECURSIVE SumUpTo(_, _)
SumUpTo(s, n) == IF n = 0 THEN 0 ELSE SumUpTo(s, n - 1) + s[n]
SeqSum(s) == LET t == AsSeq(s) IN SumUpTo(t, Len(t))

RECURSIVE ProdUpTo(_, _)
ProdUpTo(s, n) == IF n = 0 THEN 1 ELSE ProdUpTo(s, n - 1) * s[n]
SeqProd(s) == LET t == AsSeq(s) IN ProdUpTo(t, Len(t))

Bit(v, a) == (v \div (2^a)) % 2

\* unsigned int arithmetic: the value of a - b in unsigned int
UIntSub(a, b) == (a - b) % (2^UIntBits)

\* ------------------------------------------------------------------ mesh
\* 1D Gauss rules on a cell edge: positions on the grid, and weights
GaussPoints(n) == IF n = 2 THEN <<1, 3>> ELSE <<1, 2, 3>>
GaussWeights(n) == IF n = 2 THEN <<1, 1>> ELSE <<5, 8, 5>>
CellWidth == Len(GaussPoints(3)) + 1

Cells == 1..n_cells
vertices_per_cell == 2^dim
faces_per_cell == 2 * dim
n_components == dim + 1

\* number of the vertex v of cell c in the triangulation
VertexNumber(c, v) == (v \div 2) * (n_cells + 1) + (c - 1) + Bit(v, 0)
n_vertices == IF n_cells = 0 THEN 0 ELSE (n_cells + 1) * 2^(dim - 1)
DoFs == 0..(n_vertices * n_components - 1)

\* cell->vertex(v): the coordinates of vertex v of cell c
vertex(c, v) ==
  AsSeq([a \in 1..dim |-> IF a = 1 THEN (c - 1 + Bit(v, 0)) * CellWidth
                          ELSE Bit(v, a - 1) * CellWidth])

\* cell->vertex_dof_index(v, comp)
vertex_dof_index(c, v, comp) == VertexNumber(c, v) * n_components + comp

\* face f of a cell: normal along axis f \div 2 (0-based), on the low (0)
\* or high (1) side
FaceAxis(f) == f \div 2
FaceSide(f) == f % 2

\* cell->face(f)->at_boundary()
at_boundary(c, f) ==
  \/ FaceAxis(f) # 0
  \/ FaceSide(f) = 0 /\ c = 1
  \/ FaceSide(f) = 1 /\ c = n_cells

\* cell->face(f)->boundary_id() of a face at the boundary (colorized box)
boundary_id(c, f) == f

\* the geometric face that face f of cell c is: two cells share one
\* interior face
FaceOf(c, f) ==
  IF FaceAxis(f) = 0 THEN <<0, c - 1 + FaceSide(f), 0>>
  ELSE <<FaceAxis(f), FaceSide(f), c>>

AllFaces == {FaceOf(c, f) : c \in Cells, f \in 0..(faces_per_cell - 1)}
InteriorFace(F) == F[1] = 0 /\ F[2] > 0 /\ F[2] < n_cells

\* ------------------------------------------------------------ partition
is_locally_owned(r, c) == owner[c] = r
is_ghost(r, c) ==
  /\ owner[c] # r
  /\ \E c2 \in Cells : owner[c2] = r /\ (c2 = c + 1 \/ c2 = c - 1)
is_artificial(r, c) == ~is_locally_owned(r, c) /\ ~is_ghost(r, c)

\* the indices a ghosted vector of rank r holds: the DoFs of its owned and
\* ghost cells
RelevantDoFs(r) ==
  {vertex_dof_index(c, v, comp) :
     c \in {c2 \in Cells : ~is_artificial(r, c2)},
     v \in 0..(vertices_per_cell - 1),
     comp \in 0..(n_components - 1)}

\* the ghosted copy of vector vec on rank r
Ghosted(vec, r) == [d \in RelevantDoFs(r) |-> vec[d]] @@ <<>>

\* ---------------------------------------------------------- quadrature
\* QGauss<d-1>(n) on face f of the reference cell of dimension d: per
\* quadrature point its reference coordinates xi (one per axis, on the
\* grid) and its weight; the first tangential axis runs fastest
RefQuadrature(d, f, n) ==
  [q \in 1..(n^(d - 1)) |->
     LET digit(j) == ((q - 1) \div (n^(j - 1))) % n
         pos(a) == IF a < FaceAxis(f) + 1 THEN a ELSE a - 1
     IN [xi  |-> AsSeq([a \in 1..d |->
                    IF a = FaceAxis(f) + 1 THEN FaceSide(f) * CellWidth
                    ELSE GaussPoints(n)[digit(pos(a)) + 1]]),
         JxW |-> SeqProd([j \in 1..(d - 1) |->
                            GaussWeights(n)[digit(j) + 1]])]]

\* the multilinear shape function of vertex v at xi (times CellWidth^d)
ShapeValue(d, v, xi) ==
  SeqProd([a \in 1..d |-> IF Bit(v, a - 1) = 1 THEN xi[a]
                          ELSE CellWidth - xi[a]])

\* its derivative along axis b (times CellWidth^(d-1))
ShapeGrad(d, v, xi, b) ==
  (IF Bit(v, b - 1) = 1 THEN 1 ELSE -1)
  * SeqProd([a \in 1..d |-> IF a = b THEN 1
                            ELSE IF Bit(v, a - 1) = 1 THEN xi[a]
                            ELSE CellWidth - xi[a]])

\* FEFaceValues::reinit on face f with QGauss<d-1>(n): per quadrature point
\* q its position and weight, the shape values shape[v+1] and the shape
\* gradients grad[b][v+1]; tabulated once, as FEFaceValues does
FEFaceTable ==
  AsSeq([d \in 1..3 |-> AsSeq([n \in 1..3 |-> AsSeq([f1 \in 1..(2 * d) |->
    LET quad == RefQuadrature(d, f1 - 1, n)
    IN AsSeq([q \in 1..(n^(d - 1)) |->
         [xi    |-> quad[q].xi,
          JxW   |-> quad[q].JxW,
          shape |-> AsSeq([i \in 1..(2^d) |->
                             ShapeValue(d, i - 1, quad[q].xi)]),
          grad  |-> AsSeq([b \in 1..d |-> AsSeq([i \in 1..(2^d) |->
                             ShapeGrad(d, i - 1, quad[q].xi, b)])])]])])])])

fe_face_values(f, n) == FEFaceTable[dim][n][f + 1]

\* fe_face_values.quadrature_point(q) for the point xi of cell c
quadrature_point(c, xi) ==
  AsSeq([a \in 1..dim |-> IF a = 1 THEN (c - 1) * CellWidth + xi[1] ELSE xi[a]])

\* fe_face_values.normal_vector(q) on face f: the outward unit normal
normal_vector(f) ==
  [a \in 1..dim |-> IF a = FaceAxis(f) + 1
                    THEN (IF FaceSide(f) = 1 THEN 1 ELSE -1) ELSE 0]

\* ------------------------------------------------------ field evaluation
\* the values of vec at the DoFs of cell c, read once per reinit:
\* dof_values[comp + 1][v + 1]
cell_dof_values(vec, c) ==
  AsSeq([k \in 1..n_components |-> AsSeq([i \in 1..vertices_per_cell |->
           vec[vertex_dof_index(c, i - 1, k - 1)]])])

\* get_function_values: component comp of the field at quadrature point qp
get_function_values(dof_values, qp, comp) ==
  SumUpTo([i \in 1..vertices_per_cell |->
             qp.shape[i] * dof_values[comp + 1][i]], vertices_per_cell)

\* get_function_gradients: d/dx_b of component comp of the field at qp
get_function_gradients(dof_values, qp, comp, b) ==
  SumUpTo([i \in 1..vertices_per_cell |->
             qp.grad[b][i] * dof_values[comp + 1][i]], vertices_per_cell)

\* get_function_symmetric_gradients of the displacement: twice the strain
get_function_symmetric_gradients(dof_values, qp, i, j) ==
  get_function_gradients(dof_values, qp, i - 1, j)
  + get_function_gradients(dof_values, qp, j - 1, i)

\* all <<cell, face>> pairs in the order of the loops of lines 37-39 and
\* 102-104
CellFaces ==
  AsSeq([i \in 1..(n_cells * faces_per_cell) |->
           <<((i - 1) \div faces_per_cell) + 1, (i - 1) % faces_per_cell>>])

\* ------------------------------------------------- compute_boundary_load
\* the face test without the comparison of the boundary indicator
LoadFaceAnyBoundary(c, f, bid) == at_boundary(c, f)

\* the face test of lines 40-41
LoadFaceSelected(c, f, bid) == at_boundary(c, f) /\ boundary_id(c, f) = bid

\* the cell test of get_point_values in the place of is_locally_owned
LoadCellNotArtificial(r, c) == ~is_artificial(r, c)

\* the cell test of line 38
LoadCellSelected(r, c) == is_locally_owned(r, c)

\* the <<cell, face>> pairs rank r integrates over, in loop order
LoadFaces(r, bid) ==
  SelectSeq(CellFaces, LAMBDA cf : /\ LoadCellSelected(r, cf[1])
                                   /\ LoadFaceSelected(cf[1], cf[2], bid))

\* lines 55-57: component (i, j) of twice the stress at xi
stress_value(dof_values, qp, data, i, j) ==
  (IF i = j
   THEN data.lame_constant
        * SeqSum([a \in 1..dim |->
                    get_function_symmetric_gradients(dof_values, qp, a, a)])
   ELSE 0)
  + 2 * data.shear_modulus
      * get_function_symmetric_gradients(dof_values, qp, i, j)

\* lines 48-61: what face f of cell c adds to local_load[i]
FaceLoad(vec, c, f, data, i) ==
  LET quad == fe_face_values(f, 2)
      dof_values == cell_dof_values(vec, c)
  IN SeqSum([q \in 1..Len(quad) |->
       SeqSum([j \in 1..dim |->
                 IF normal_vector(f)[j] = 0 THEN 0
                 ELSE stress_value(dof_values, quad[q], data, i, j)
                      * normal_vector(f)[j]])
       * quad[q].JxW])

\* lines 37-62: local_load of rank r
LocalLoad(r, vec, bid, data) ==
  LET faces == LoadFaces(r, bid)
  IN [i \in 1..dim |->
        SeqSum([k \in 1..Len(faces) |->
                  FaceLoad(vec, faces[k][1], faces[k][2], data, i)])]

\* ------------------------------------------------------------ compute_cod
\* the precondition with <= for <
DirectionAtMostDim(direction) == direction <= dim

\* line 79: the precondition AssertThrow checks
DirectionValid(direction) == direction < dim

\* lines 118-119: the index q_point is read at
ComplementaryAxis(direction) == UIntSub(1, direction)

\* q_point[1-direction]: the coordinate read; an index outside the point
\* reads past the point's storage and yields garbage
CodCoordinate(q_point, direction, garbage) ==
  IF ComplementaryAxis(direction) < dim
  THEN q_point[ComplementaryAxis(direction) + 1]
  ELSE garbage

\* lines 117-120
OnLine(coord, line, space_tol) ==
  (coord > line - space_tol) /\ (coord < line + space_tol)

\* the cell test of line 103
CodCellSelected(r, c) == is_locally_owned(r, c)

\* the <<cell, face>> pairs rank r calls reinit on, in loop order
CodFaces(r) == SelectSeq(CellFaces, LAMBDA cf : CodCellSelected(r, cf[1]))

\* line 122: u_values[q]*grad_phi_values[q]*JxW(q), in units of one half
CodTerm(dof_values, qp) ==
  SeqSum([a \in 1..dim |->
            get_function_values(dof_values, qp, a - 1)
            * get_function_gradients(dof_values, qp, dim, a)])
  * qp.JxW

\* lines 112-126: what face f of cell c adds to cod_values[k]
FaceCod(vec, c, f, line, direction, space_tol, garbage) ==
  LET quad == fe_face_values(f, 3)
      dof_values == cell_dof_values(vec, c)
  IN SeqSum([q \in 1..Len(quad) |->
       IF OnLine(CodCoordinate(quadrature_point(c, quad[q].xi), direction,
                               garbage), line, space_tol)
       THEN CodTerm(dof_values, quad[q])
       ELSE 0])

\* lines 102-127: the local cod_values of rank r
LocalCod(r, vec, lines, direction, space_tol, garbage) ==
  LET faces == CodFaces(r)
  IN [k \in 1..Len(lines) |->
        SeqSum([n \in 1..Len(faces) |->
                  FaceCod(vec, faces[n][1], faces[n][2], lines[k], direction,
                          space_tol, garbage)])]

\* ------------------------------------------------------- get_point_values
\* Point::distance, squared: distances are only compared with <, == and
\* min, which squaring preserves
distance(p, q) == SeqSum([a \in 1..dim |-> (p[a] - q[a]) * (p[a] - q[a])])

\* the cell test of lines 159-160
PointCellSelected(r, c) == ~is_artificial(r, c)

\* all <<cell, vertex>> pairs rank r visits, in the order of lines 157-162
CellVertices(r) ==
  SelectSeq([i \in 1..(n_cells * vertices_per_cell) |->
               <<((i - 1) \div vertices_per_cell) + 1,
                 (i - 1) % vertices_per_cell>>],
            LAMBDA cv : PointCellSelected(r, cv[1]))

\* line 169: whether the vertex at this distance replaces the closest so far
Closer(d, min_distance) == d < min_distance

\* lines 157-178 for one query point: the loop over cv[i..], from the
\* closest vertex found so far
RECURSIVE ClosestFrom(_, _, _, _, _)
ClosestFrom(cv, i, comp, point, best) ==
  IF i > Len(cv) THEN best
  ELSE LET d == distance(point, vertex(cv[i][1], cv[i][2]))
       IN ClosestFrom(cv, i + 1, comp, point,
            IF Closer(d, best.min_distance)
            THEN [min_distance |-> d,
                  idx |-> vertex_dof_index(cv[i][1], cv[i][2], comp)]
            ELSE best)

\* lines 145-178: min_distances and closest_vertex_idx of rank r
LocalClosest(r, comp, points) ==
  [p \in 1..Len(points) |->
     ClosestFrom(CellVertices(r), 1, comp, points[p],
                 [min_distance |-> DoubleMax, idx |-> UIntMax])]

\* ------------------------------------------------------------ collectives
\* rank r enters its next collective, contributing val
Enter(r, op, val) == [log EXCEPT ![r] = Append(@, [op |-> op, val |-> val])]

\* a rank inside its k-th collective leaves it once every rank has entered
\* its own k-th collective, and that is the same operation
CollectiveReady(r, k) ==
  \A r2 \in Ranks : Len(log[r2]) >= k /\ log[r2][k].op = log[r][k].op

RECURSIVE SeqMin(_)
SeqMin(s) ==
  IF Len(s) = 1 THEN s[1]
  ELSE LET m == SeqMin(Tail(s)) IN IF Head(s) < m THEN Head(s) ELSE m

\* Utilities::MPI::sum / Utilities::MPI::min over the k-th contributions
Reduced(k) ==
  LET contributions == [r \in 1..NRanks |-> log[r][k].val]
  IN IF log[1][k].op = "sum" THEN SeqSum(contributions)
     ELSE SeqMin(contributions)

\* ------------------------------------------------------------------ inputs
FieldSeeds == {1, 2}
\* a solution vector: one value per DoF
SolutionField(seed) == [d \in DoFs |-> (seed * d * d + (d \div 2) + seed) % 3]

\* InputData::PhaseFieldData: the elastic constants
ElasticData == [lame_constant |-> 2, shear_modulus |-> 1]

BoundaryIds == {0, 3, 7}
Directions == 0..3
LineLists == {<<>>, <<4, 2>>}
SpaceTols == {1}
Pt(x, y) == IF dim = 2 THEN <<x, y>> ELSE <<x, y, 0>>
PointLists == {<<Pt(2, 0)>>, <<Pt(0, 4), Pt(9, 1)>>}
Comps == {0, dim}
\* what a read outside an object's storage may yield
GarbageCoords == {2, 9}
GarbageValues == {0, 5}

NoCall ==
  [name |-> "none", boundary_id |-> 0, lines |-> <<>>, direction |-> 0,
   space_tol |-> 0, comp |-> 0, points |-> <<>>]

LoadCalls ==
  {[NoCall EXCEPT !.name = "load", !.boundary_id = b] : b \in BoundaryIds}
CodCalls ==
  {[NoCall EXCEPT !.name = "cod", !.lines = l, !.direction = d,
                  !.space_tol = t] :
     l \in LineLists, d \in Directions, t \in SpaceTols}
PointCalls ==
  {[NoCall EXCEPT !.name = "points", !.comp = c, !.points = p] :
     c \in Comps, p \in PointLists}

\* the ways of assigning the cells to ranks, ranks numbered in the order of
\* the first cell they own (any assignment is one of these up to the
\* numbering of the ranks); a rank may own no cell
Partitions ==
  {o \in [1..n_cells -> Ranks] :
     \A c \in 1..n_cells :
       o[c] = 1 \/ \E c2 \in 1..(c - 1) : o[c2] = o[c] - 1}

Empty == [r \in Ranks |-> <<>>]
Terminated(r) == pc[r] \in {"done", "failed", "crashed"}

\* -------------------------------------------------------------------- Init
Init ==
  /\ dim \in Dims
  /\ n_cells \in 0..MaxCells
  /\ owner \in Partitions
  /\ \E seed \in FieldSeeds :
       /\ solution = SolutionField(seed)
       \* the ghosted copy was last synchronised with an earlier solution
       /\ relevant_solution =
            [r \in Ranks |-> Ghosted(SolutionField(3 - seed), r)]
  /\ call = NoCall
  /\ pc = [r \in Ranks |-> "idle"]
  /\ log = Empty
  /\ local = Empty
  /\ closest_vertex_idx = Empty
  /\ values = Empty
  /\ reinit_trace = Empty
  /\ reads = Empty

\* every rank calls the same function with the same arguments
Invoke ==
  /\ \A r \in Ranks : pc[r] = "idle"
  /\ call' \in LoadCalls \cup CodCalls \cup PointCalls
  /\ pc' = [r \in Ranks |-> "entry"]
  /\ UNCHANGED <<dim, n_cells, owner, solution, relevant_solution, log, local,
                 closest_vertex_idx, values, reinit_trace, reads>>

\* ----------------------------------------------------- compute_boundary_load
\* the ghosted copy of another vector than the solution
LoadOtherVector(r) == Ghosted([d \in DoFs |-> 0], r)

\* line 31
LoadRelevantSolution(r) == Ghosted(solution, r)

\* lines 14-65, up to entering the first Utilities::MPI::sum
compute_boundary_load(r) ==
  /\ pc[r] = "entry" /\ call.name = "load"
  /\ LET rs == LoadRelevantSolution(r)
         local_load == LocalLoad(r, rs, call.boundary_id, ElasticData)
     IN /\ relevant_solution' = [relevant_solution EXCEPT ![r] = rs]
        /\ local' = [local EXCEPT ![r] = local_load]
        /\ reinit_trace' =
             [reinit_trace EXCEPT ![r] = LoadFaces(r, call.boundary_id)]
        /\ log' = Enter(r, "sum", local_load[1])
  /\ pc' = [pc EXCEPT ![r] = "collective"]
  /\ UNCHANGED <<dim, n_cells, owner, solution, call, closest_vertex_idx,
                 values, reads>>

\* lines 64-67: boundary_load[c] is set, and the next sum entered
LoadSum(r) ==
  /\ pc[r] = "collective" /\ call.name = "load"
  /\ LET k == Len(log[r])
     IN /\ CollectiveReady(r, k)
        /\ values' = [values EXCEPT ![r] = Append(@, Reduced(k))]
        /\ IF k < dim
           THEN /\ log' = Enter(r, "sum", local[r][k + 1])
                /\ pc' = pc
           ELSE /\ log' = log
                /\ pc' = [pc EXCEPT ![r] = "done"]
  /\ UNCHANGED <<dim, n_cells, owner, solution, relevant_solution, call,
                 local, closest_vertex_idx, reinit_trace, reads>>

\* ---------------------------------------------------------------- compute_cod
\* line 96
CodRelevantSolution(r) == Ghosted(solution, r)

\* line 79: AssertThrow fails
CodThrow(r) ==
  /\ pc' = [pc EXCEPT ![r] = "failed"]
  /\ UNCHANGED <<relevant_solution, local, reinit_trace, log, values>>

\* lines 81-130 when the loops run to their end, reading garbage for a
\* coordinate outside the point
CodRun(r, garbage) ==
  LET rs == CodRelevantSolution(r)
      cod_values == LocalCod(r, rs, call.lines, call.direction,
                             call.space_tol, garbage)
  IN /\ relevant_solution' = [relevant_solution EXCEPT ![r] = rs]
     /\ local' = [local EXCEPT ![r] = cod_values]
     /\ reinit_trace' = [reinit_trace EXCEPT ![r] = CodFaces(r)]
     /\ values' = values
     /\ IF call.lines = <<>>
        THEN /\ log' = log
             /\ pc' = [pc EXCEPT ![r] = "done"]
        ELSE /\ log' = Enter(r, "sum", cod_values[1])
             /\ pc' = [pc EXCEPT ![r] = "collective"]

\* lines 81-118 when the first read of q_point[1-direction] is outside the
\* point and stops the process (a checked index, or a fault)
CodCrash(r) ==
  /\ relevant_solution' =
       [relevant_solution EXCEPT ![r] = CodRelevantSolution(r)]
  /\ local' = [local EXCEPT ![r] = [k \in 1..Len(call.lines) |-> 0]]
  /\ reinit_trace' = [reinit_trace EXCEPT ![r] = <<CodFaces(r)[1]>>]
  /\ pc' = [pc EXCEPT ![r] = "crashed"]
  /\ UNCHANGED <<log, values>>

\* whether rank r reads a coordinate at all, and outside the point
CodReadsOutside(r) ==
  /\ ComplementaryAxis(call.direction) >= dim
  /\ CodFaces(r) # <<>>
  /\ call.lines # <<>>

\* lines 79-130, up to entering the first Utilities::MPI::sum
compute_cod(r) ==
  /\ pc[r] = "entry" /\ call.name = "cod"
  /\ IF ~DirectionValid(call.direction) THEN CodThrow(r)
     ELSE IF CodReadsOutside(r)
          THEN \/ CodCrash(r)
               \/ \E garbage \in GarbageCoords : CodRun(r, garbage)
          ELSE CodRun(r, 0)
  /\ UNCHANGED <<dim, n_cells, owner, solution, call, closest_vertex_idx,
                 reads>>

\* lines 129-132: cod_values[k] is set, and the next sum entered
CodSum(r) ==
  /\ pc[r] = "collective" /\ call.name = "cod"
  /\ LET k == Len(log[r])
     IN /\ CollectiveReady(r, k)
        /\ values' = [values EXCEPT ![r] = Append(@, Reduced(k))]
        /\ IF k < Len(call.lines)
           THEN /\ log' = Enter(r, "sum", local[r][k + 1])
                /\ pc' = pc
           ELSE /\ log' = log
                /\ pc' = [pc EXCEPT ![r] = "done"]
  /\ UNCHANGED <<dim, n_cells, owner, solution, relevant_solution, call,
                 local, closest_vertex_idx, reinit_trace, reads>>

\* ----------------------------------------------------------- get_point_values
\* lines 144-186, up to entering the first Utilities::MPI::min
get_point_values(r) ==
  /\ pc[r] = "entry" /\ call.name = "points"
  /\ LET closest == LocalClosest(r, call.comp, call.points)
         n_points == Len(call.points)
     IN /\ local' = [local EXCEPT ![r] =
                       [p \in 1..n_points |-> closest[p].min_distance]]
        /\ closest_vertex_idx' =
             [closest_vertex_idx EXCEPT ![r] =
                [p \in 1..n_points |-> closest[p].idx]]
        /\ log' = Enter(r, "min", closest[1].min_distance)
  /\ pc' = [pc EXCEPT ![r] = "collective"]
  /\ UNCHANGED <<dim, n_cells, owner, solution, relevant_solution, call,
                 values, reinit_trace, reads>>

\* every rank reads the value of its own closest vertex
HoldsAlways(global_min_distance, min_distance) == TRUE

\* line 188: whether this rank reads the value
HoldsMinimum(global_min_distance, min_distance) ==
  global_min_distance = min_distance

\* the `solution` argument on rank r: the ghosted current solution
PointSolution(r) == Ghosted(solution, r)

\* lines 185-194 for point p, then the next Utilities::MPI::min is entered
PointsMinDistance(r) ==
  /\ pc[r] = "collective" /\ call.name = "points"
  /\ LET p == Len(log[r])
         n_points == Len(call.points)
         idx == closest_vertex_idx[r][p]
         next(vs) == IF p < n_points THEN local[r][p + 1] ELSE vs[1]
         finish(v) ==
           /\ values' = [values EXCEPT ![r] = Append(@, v)]
           /\ log' = Enter(r, "min", next(Append(values[r], v)))
           /\ pc' = pc
     IN /\ p <= n_points
        /\ CollectiveReady(r, p)
        /\ IF HoldsMinimum(Reduced(p), local[r][p])
           THEN /\ reads' = [reads EXCEPT ![r] = Append(@, idx)]
                /\ IF idx \in DOMAIN PointSolution(r)
                   THEN finish(PointSolution(r)[idx])
                   ELSE \* solution[idx] outside the vector
                        \/ \E v \in GarbageValues : finish(v)
                        \/ /\ pc' = [pc EXCEPT ![r] = "crashed"]
                           /\ UNCHANGED <<values, log>>
           ELSE /\ reads' = reads
                /\ finish(DoubleMax)
  /\ UNCHANGED <<dim, n_cells, owner, solution, relevant_solution, call,
                 local, closest_vertex_idx, reinit_trace>>

\* lines 196-199: values[p] is set, and the next min entered
PointsMinValue(r) ==
  /\ pc[r] = "collective" /\ call.name = "points"
  /\ LET k == Len(log[r])
         n_points == Len(call.points)
         p == k - n_points
     IN /\ k > n_points
        /\ CollectiveReady(r, k)
        /\ values' = [values EXCEPT ![r] = [@ EXCEPT ![p] = Reduced(k)]]
        /\ IF p < n_points
           THEN /\ log' = Enter(r, "min", values[r][p + 1])
                /\ pc' = pc
           ELSE /\ log' = log
                /\ pc' = [pc EXCEPT ![r] = "done"]
  /\ UNCHANGED <<dim, n_cells, owner, solution, relevant_solution, call,
                 local, closest_vertex_idx, reinit_trace, reads>>

\* every rank has returned, or thrown the exception of line 79 to its
\* caller: the program goes on
Return ==
  /\ \A r \in Ranks : pc[r] \in {"done", "failed"}
  /\ call' = NoCall
  /\ pc' = [r \in Ranks |-> "idle"]
  /\ log' = Empty
  /\ local' = Empty
  /\ closest_vertex_idx' = Empty
  /\ values' = Empty
  /\ reinit_trace' = Empty
  /\ reads' = Empty
  /\ UNCHANGED <<dim, n_cells, owner, solution, relevant_solution>>

Next ==
  \/ Invoke
  \/ \E r \in Ranks : compute_boundary_load(r)
  \/ \E r \in Ranks : LoadSum(r)
  \/ \E r \in Ranks : compute_cod(r)
  \/ \E r \in Ranks : CodSum(r)
  \/ \E r \in Ranks : get_point_values(r)
  \/ \E r \in Ranks : PointsMinDistance(r)
  \/ \E r \in Ranks : PointsMinValue(r)
  \/ Return

Spec == Init /\ [][Next]_vars

\* ===================================================================
\* Properties
\* ===================================================================
AllDone == \A r \in Ranks : pc[r] = "done"
PastEntry == \A r \in Ranks : pc[r] \notin {"idle", "entry"}
Zeros(n) == [i \in 1..n |-> 0]

\* how many times the ranks together called reinit on the geometric face F
ReinitCount(F) ==
  SeqSum([r \in 1..NRanks |->
            Len(SelectSeq(reinit_trace[r],
                          LAMBDA cf : FaceOf(cf[1], cf[2]) = F))])

\* ------------------------------------------------------------------- C1
\* the mesh vertices, by their coordinates
VertexPoints == {vertex(c, v) : c \in Cells, v \in 0..(vertices_per_cell - 1)}
NearestVertices(point) ==
  LET ds == {distance(point, x) : x \in VertexPoints}
      dmin == CHOOSE d \in ds : \A e \in ds : d <= e
  IN {x \in VertexPoints : distance(point, x) = dmin}
\* one mesh vertex is strictly nearer to the point than every other
UniqueNearest(point) == Cardinality(NearestVertices(point)) = 1
\* the DoF of component comp at the vertex with coordinates x
DoFAt(x, comp) ==
  LET number == SeqSum([a \in 1..dim |->
                   IF a = 1 THEN x[1] \div CellWidth
                   ELSE (x[a] \div CellWidth) * 2^(a - 2) * (n_cells + 1)])
  IN number * n_components + comp
NearestValue(point, comp) ==
  solution[DoFAt(CHOOSE x \in NearestVertices(point) : TRUE, comp)]
GlobalMinDistance(p) == SeqMin([r \in 1..NRanks |-> local[r][p]])

\* C1: get_point_values returns, on every rank, for every query point with
\* a unique globally nearest vertex, the solution entry at the DoF (for
\* component comp) of that vertex; a rank whose local minimum distance is
\* larger than the global minimum contributes the sentinel to the final
\* min-reduction; and no rank stops when every point has such a vertex.
C1_NearestVertexValue ==
  call.name = "points" =>
    \A r \in Ranks :
      /\ \A p \in 1..Len(call.points) :
           /\ (pc[r] = "done" /\ UniqueNearest(call.points[p])) =>
                values[r][p] = NearestValue(call.points[p], call.comp)
           /\ (PastEntry /\ Len(log[r]) >= Len(call.points) + p
                         /\ local[r][p] > GlobalMinDistance(p)) =>
                log[r][Len(call.points) + p].val = DoubleMax
      /\ pc[r] = "crashed" =>
           \E p \in 1..Len(call.points) : ~UniqueNearest(call.points[p])

\* a rank that does not see the vertex the point coincides with has
\* returned that vertex's value
C1_Witness ==
  /\ call.name = "points" /\ AllDone
  /\ \E r \in Ranks : \E p \in 1..Len(call.points) :
       /\ UniqueNearest(call.points[p])
       /\ GlobalMinDistance(p) = 0
       /\ local[r][p] > 0
       /\ values[r][p] = NearestValue(call.points[p], call.comp)
       /\ values[r][p] # DoubleMax

\* ------------------------------------------------------------------- C2
\* get_point_values on the same mesh held by a single rank
SinglePartitionValues ==
  LET cv == AsSeq([i \in 1..(n_cells * vertices_per_cell) |->
                     <<((i - 1) \div vertices_per_cell) + 1,
                       (i - 1) % vertices_per_cell>>])
  IN [p \in 1..Len(call.points) |->
        solution[ClosestFrom(cv, 1, call.comp, call.points[p],
                             [min_distance |-> DoubleMax,
                              idx |-> UIntMax]).idx]]

\* C2: on a mesh with cells, get_point_values returns for every query
\* point (ties included) what it returns when one rank holds the whole
\* mesh, whatever the assignment of cells to ranks.
C2_PartitionInvariance ==
  (call.name = "points" /\ n_cells > 0 /\ AllDone) =>
    \A r \in Ranks : \A p \in 1..Len(call.points) :
      values[r][p] = SinglePartitionValues[p]

\* ------------------------------------------------------------------- C3
NoVertexAnywhere == \A r \in Ranks : CellVertices(r) = <<>>

\* C3: when no rank has a non-artificial cell, get_point_values returns the
\* sentinel for every point on every rank, and no rank reads the solution
\* vector at the placeholder index.
C3_DegenerateSentinel ==
  (call.name = "points" /\ NoVertexAnywhere) =>
    \A r \in Ranks :
      /\ \A i \in 1..Len(reads[r]) : reads[r][i] # UIntMax
      /\ pc[r] # "crashed"
      /\ pc[r] = "done" =>
           \A p \in 1..Len(call.points) : values[r][p] = DoubleMax

\* ------------------------------------------------------------------- C4
\* the collectives the arguments alone prescribe
ExpectedCollectives ==
  IF call.name = "load" THEN [k \in 1..dim |-> "sum"]
  ELSE IF call.name = "cod"
       THEN (IF DirectionValid(call.direction)
             THEN [k \in 1..Len(call.lines) |-> "sum"] ELSE <<>>)
  ELSE IF call.name = "points"
       THEN [k \in 1..(2 * Len(call.points)) |-> "min"]
  ELSE <<>>

\* C4: every rank issues the sequence of collectives that the arguments
\* prescribe, whatever its partition holds, and no rank waits in a
\* collective that another rank, having ended its call, never enters.
C4_CollectivesMatch ==
  \A r \in Ranks :
    /\ Terminated(r) =>
         [k \in 1..Len(log[r]) |-> log[r][k].op] = ExpectedCollectives
    /\ pc[r] = "collective" =>
         ~\E r2 \in Ranks : Terminated(r2) /\ Len(log[r2]) < Len(log[r])

\* ------------------------------------------------------------------- C5
\* C5: compute_cod called with direction >= dim fails, and the failing
\* step changes nothing else: pf.relevant_solution is not overwritten, no
\* face is visited, no collective is entered.
C5_InvalidDirectionFailsFirst ==
  [][\A r \in Ranks :
       (call.name = "cod" /\ call.direction >= dim
          /\ pc[r] = "entry" /\ pc'[r] # "entry") =>
         /\ pc'[r] = "failed"
         /\ relevant_solution'[r] = relevant_solution[r]
         /\ reinit_trace'[r] = <<>>
         /\ log'[r] = <<>>
         /\ local'[r] = <<>>
         /\ values'[r] = <<>>]_vars

\* a rank has failed on an invalid direction while its ghosted vector is
\* still out of date
C5_Witness ==
  /\ call.name = "cod" /\ call.direction >= dim /\ n_cells > 0
  /\ \E r \in Ranks :
       /\ pc[r] = "failed"
       /\ relevant_solution[r] # Ghosted(solution, r)

\* ------------------------------------------------------------------- C6
\* compute_boundary_load on the same mesh held by a single rank
SinglePartitionLoad ==
  LET faces == SelectSeq(CellFaces,
                 LAMBDA cf : /\ at_boundary(cf[1], cf[2])
                             /\ boundary_id(cf[1], cf[2]) = call.boundary_id)
  IN [i \in 1..dim |->
        SeqSum([k \in 1..Len(faces) |->
                  FaceLoad(solution, faces[k][1], faces[k][2],
                           ElasticData, i)])]
Tagged(F) ==
  \E c \in Cells, f \in 0..(faces_per_cell - 1) :
    /\ FaceOf(c, f) = F
    /\ at_boundary(c, f)
    /\ boundary_id(c, f) = call.boundary_id

\* C6: in compute_boundary_load every boundary face with the requested tag
\* is integrated by exactly one rank and every other face by none, and the
\* load every rank returns is the one a single partition computes.
C6_LoadPartitionInvariant ==
  call.name = "load" =>
    /\ PastEntry =>
         \A F \in AllFaces : ReinitCount(F) = IF Tagged(F) THEN 1 ELSE 0
    /\ \A r \in Ranks :
         pc[r] = "done" => values[r] = SinglePartitionLoad

\* two ranks each integrated a tagged face and a nonzero load came back
C6_Witness ==
  /\ call.name = "load" /\ AllDone
  /\ \E r1, r2 \in Ranks :
       r1 # r2 /\ reinit_trace[r1] # <<>> /\ reinit_trace[r2] # <<>>
  /\ values[1] # Zeros(dim)

\* ------------------------------------------------------------------- C7
\* C7 as stated: no call modifies solver state.
C7_SolverStateUnchanged ==
  [][solution' = solution /\ relevant_solution' = relevant_solution]_vars

\* C7 amended: pf.solution is never modified; the only solver state written
\* is the member pf.relevant_solution, which compute_boundary_load and
\* compute_cod overwrite on entry with the ghosted copy of pf.solution;
\* get_point_values writes no solver state.
C7_OnlyRelevantSolutionOverwritten ==
  [][/\ solution' = solution
     /\ \A r \in Ranks :
          relevant_solution'[r] # relevant_solution[r] =>
            /\ call.name \in {"load", "cod"}
            /\ pc[r] = "entry"
            /\ relevant_solution'[r] = Ghosted(solution, r)]_vars

\* one rank has overwritten its out-of-date ghosted vector, another has not
\* yet
C7_Witness ==
  /\ call.name = "load"
  /\ \E r, r2 \in Ranks :
       /\ pc[r] = "collective"
       /\ relevant_solution[r] = Ghosted(solution, r)
       /\ pc[r2] = "entry"
       /\ RelevantDoFs(r2) = RelevantDoFs(r)
       /\ relevant_solution[r2] # relevant_solution[r]

\* ------------------------------------------------------------------- C8
NoMatchingFace(r) ==
  ~\E c \in Cells, f \in 0..(faces_per_cell - 1) :
     /\ is_locally_owned(r, c)
     /\ at_boundary(c, f)
     /\ boundary_id(c, f) = call.boundary_id

\* C8: in compute_boundary_load a rank none of whose owned cells has a face
\* with the requested tag raises no error, keeps local_load zero and
\* contributes zero to every sum; when no rank has such a face every rank
\* returns the zero vector.
C8_AbsentBoundaryIsZero ==
  call.name = "load" =>
    /\ \A r \in Ranks :
         (pc[r] # "entry" /\ NoMatchingFace(r)) =>
           /\ pc[r] \in {"collective", "done"}
           /\ local[r] = Zeros(dim)
           /\ \A k \in 1..Len(log[r]) : log[r][k].val = 0
    /\ \A r \in Ranks :
         (pc[r] = "done" /\ \A r2 \in Ranks : NoMatchingFace(r2)) =>
           values[r] = Zeros(dim)

\* a rank that owns cells, none with the tag, contributed zero while the
\* result is not zero
C8_Witness ==
  /\ call.name = "load" /\ AllDone
  /\ \E r \in Ranks :
       /\ NoMatchingFace(r)
       /\ \E c \in Cells : is_locally_owned(r, c)
       /\ values[r] # Zeros(dim)

\* ------------------------------------------------------------------- C9
\* compute_cod on the same mesh held by a single rank
SinglePartitionCod(garbage) ==
  [k \in 1..Len(call.lines) |->
     SeqSum([n \in 1..Len(CellFaces) |->
               FaceCod(solution, CellFaces[n][1], CellFaces[n][2],
                       call.lines[k], call.direction, call.space_tol,
                       garbage)])]

\* C9: in compute_cod with a valid direction the ranks together visit every
\* interior face exactly twice and every boundary face exactly once, and
\* the cod values every rank returns are those a single partition computes.
C9_FaceVisitCounts ==
  (call.name = "cod" /\ DirectionValid(call.direction)) =>
    /\ PastEntry =>
         \A F \in AllFaces :
           ReinitCount(F) = IF InteriorFace(F) THEN 2 ELSE 1
    /\ \A r \in Ranks :
         pc[r] = "done" =>
           \E garbage \in GarbageCoords : values[r] = SinglePartitionCod(garbage)

\* ------------------------------------------------------------------ C10
\* C10: for every direction that passes compute_cod's precondition, the
\* index 1 - direction that q_point is read at is a coordinate of the
\* point.
C10_ComplementaryAxisValid ==
  (call.name = "cod" /\ DirectionValid(call.direction)) =>
    ComplementaryAxis(call.direction) < dim

===========================================================================
